---- MODULE Spec2Model ----
(***************************************************************************)
(* Batching / deferred-result coordination of the pyanki client:           *)
(* anki.batch.BatchManager and anki.batch.DeferredResult, driven by the    *)
(* blocking anki.connect.Client or by anki.connect.AsyncClient.            *)
(*                                                                         *)
(* JSON values are strings ("null" is JSON null), JSON objects are         *)
(* functions from key strings, JSON lists are sequences.  A Python         *)
(* exception, and a returned value, is a record [kind, val]: kind is the   *)
(* exception class (or "value"), val the message (or the value).           *)
(*                                                                         *)
(* A coordinator is used in the style of the client that made it:          *)
(* placeholder.value with the blocking client, `await placeholder` and     *)
(* `await placeholder.async_value` with the asynchronous one.              *)
(***************************************************************************)
EXTENDS Integers, Sequences, FiniteSets, TLC

\* ------------------------------------------------------------- bounds
MaxCalls == 2       \* add_action calls made in one behaviour
MaxRequests == 2    \* requests posted to the endpoint in one behaviour
MaxDepth == 2       \* batch scopes open inside one another

\* ---------------------------------------------------------- constants
version == 6        \* BaseClient.__init__ default
Null == "null"
EmptyParams == [k \in {} |-> Null]
\* The k-th call the caller queues.  What a call says is opaque to the
\* coordinator; the calls differ from one another (the first has no
\* parameters), so that a request tells which calls it carries.
CallOf(k) ==
    IF k = 1 THEN [action |-> "deckNames", params |-> EmptyParams]
    ELSE [action |-> "cardsInfo", params |-> [cards |-> <<k>>]]

VARIABLES
    client,            \* "sync": anki.connect.Client, "async": AsyncClient
    auto_await,        \* BatchManager.auto_await
    actions,           \* BatchManager.actions
    futures,           \* BatchManager.futures (the placeholder owning each)
    deferred_results,  \* BatchManager.deferred_results
    dispatch_group,    \* BatchManager.dispatch_group
    dr,                \* the DeferredResult objects created so far
    task,              \* the coroutines of the asynchronous client
    requests,          \* what the endpoint has been sent, in order
    answer,            \* per call: how the endpoint last answered it
    lastOp,            \* the operation that made the last step
    batcher,           \* BaseClient.batcher: the coordinator (TRUE) or None
    scopes,            \* the batch scopes entered and not yet left, innermost last
    endpoint,          \* what the endpoint may reply: "any" reply, or "plain"
    blocking           \* a blocking coordinator given the same operations

vars == <<client, auto_await, actions, futures, deferred_results,
          dispatch_group, dr, task, requests, answer, lastOp, batcher, scopes,
          endpoint, blocking>>

\* --------------------------------------------------- values and errors
Value(v) == [kind |-> "value", val |-> v]
Exc(k, m) == [kind |-> k, val |-> m]
Pending == [kind |-> "pending", val |-> Null]
NoCache == [kind |-> "nocache", val |-> Null]
NoEnvelope == [k \in {} |-> Null]
NoAnswer == [status |-> "none", env |-> NoEnvelope]
Suspended == [kind |-> "suspended", val |-> Null]
\* anki.errors: UnexpectedAPIResponse is a subclass of APIException.
AnkiAPIException == {"APIException", "UnexpectedAPIResponse"}
isException(o) ==
    o.kind \in AnkiAPIException
              \cup {"InvalidStateError", "AssertionError", "RuntimeError"}

InvalidStateError == Exc("InvalidStateError", "Result is not ready.")
AssertionError == Exc("AssertionError", "")
RuntimeError(m) == Exc("RuntimeError", m)

DR == DOMAIN dr
Tasks == DOMAIN task

\* ------------------------------------------------------------ codec
\* Mutant: the params key is always there.
make_request_alwaysparams(v, action, params) ==
    [action |-> action, params |-> params, version |-> v]

make_request(v, action, params) ==
    IF DOMAIN params # {}
    THEN [action |-> action, params |-> params, version |-> v]
    ELSE [action |-> action, version |-> v]

\* Mutant: the number of fields is not checked.
parse_response_nolen(response) ==
    IF "error" \notin DOMAIN response
    THEN Exc("UnexpectedAPIResponse", "Response is missing required error field")
    ELSE IF "result" \notin DOMAIN response
    THEN Exc("UnexpectedAPIResponse", "Response is missing required result field")
    ELSE IF response["error"] # Null
    THEN Exc("APIException", response["error"])
    ELSE Value(response["result"])

\* Mutant: the error field is not looked at.
parse_response_noerror(response) ==
    IF Cardinality(DOMAIN response) # 2
    THEN Exc("UnexpectedAPIResponse", "Response has an unexpected number of fields")
    ELSE IF "error" \notin DOMAIN response
    THEN Exc("UnexpectedAPIResponse", "Response is missing required error field")
    ELSE IF "result" \notin DOMAIN response
    THEN Exc("UnexpectedAPIResponse", "Response is missing required result field")
    ELSE Value(response["result"])

parse_response(response) ==
    IF Cardinality(DOMAIN response) # 2
    THEN Exc("UnexpectedAPIResponse", "Response has an unexpected number of fields")
    ELSE IF "error" \notin DOMAIN response
    THEN Exc("UnexpectedAPIResponse", "Response is missing required error field")
    ELSE IF "result" \notin DOMAIN response
    THEN Exc("UnexpectedAPIResponse", "Response is missing required result field")
    ELSE IF response["error"] # Null
    THEN Exc("APIException", response["error"])
    ELSE Value(response["result"])

\* ---------------------------------------------------------- endpoint
Env(e, r) == [error |-> e, result |-> r]
ItemEnvelopes ==
    {Env(Null, "r1"), Env("boom", Null),
     [error |-> Null, result |-> "r1", extra |-> "x"]}

RECURSIVE ListsOf(_)
ListsOf(n) ==
    IF n = 0 THEN {<<>>}
    ELSE {Append(l, e) : l \in ListsOf(n - 1), e \in ItemEnvelopes}

Fill(n) == [i \in 1..n |-> Env(Null, "r1")]

\* The replies the endpoint may give to a composite request of n calls: a
\* transport failure, a failed or malformed top-level envelope, or a result
\* list (of n envelopes, or of one fewer or one more).  No request (n = 0)
\* gets no reply.  A "plain" endpoint either cannot be reached or answers
\* every call with the same result.
Statuses(n) ==
    IF n = 0 THEN {"none"}
    ELSE IF endpoint = "plain" THEN {"RequestError", "ok"}
    ELSE {"RequestError", "HTTPStatusError", "error", "malformed", "ok"}
ResultLists(status, n) ==
    IF status # "ok" THEN {<<>>}
    ELSE IF endpoint = "plain" THEN {Fill(n)}
    ELSE ListsOf(n) \cup {Fill(n - 1), Fill(n + 1)}
Body(status, list) ==
    CASE status = "ok" -> Env(Null, list)
      [] status = "error" -> Env("boom", Null)
      [] OTHER -> [error |-> Null, result |-> Null, extra |-> "x"]

\* ------------------------------------------- the program state as a value
\* The operations below are functions from such a record to the record after
\* the call; `out` is what the call returned (Value) or raised (exception),
\* `flush` whether the call handled a composite reply ("ok": delivered and
\* cleared, "raised": the dispatch raised) or none.
\* No blocking coordinator is run beside the one in the variables.
NoTwin == <<>>

Cur ==
    [actions |-> actions, futures |-> futures,
     deferred_results |-> deferred_results, dispatch_group |-> dispatch_group,
     dr |-> dr, requests |-> requests, out |-> Value(Null),
     flush |-> "none", stop |-> "done", at |-> 0]

Commit(s) ==
    /\ actions' = s.actions
    /\ futures' = s.futures
    /\ deferred_results' = s.deferred_results
    /\ dispatch_group' = s.dispatch_group
    /\ dr' = s.dr
    /\ requests' = s.requests

Return(s, v) == [s EXCEPT !.out = v]
Raise(s, e) == [s EXCEPT !.out = e]

\* ------------------------------------------------------ asyncio.Future
\* Mutant: a result is not stored in the future.
set_result_lost(s, p, r) == s

set_result(s, p, r) ==
    IF s.dr[p].future # Pending
    THEN Raise(s, Exc("InvalidStateError", "invalid state"))
    ELSE [s EXCEPT !.dr[p].future = r]

\* Mutant: a failure is not stored in the future.
set_exception_lost(s, p, e) == s

set_exception(s, p, e) ==
    IF s.dr[p].future # Pending
    THEN Raise(s, Exc("InvalidStateError", "invalid state"))
    ELSE [s EXCEPT !.dr[p].future = e]

result(f) == IF f = Pending THEN InvalidStateError ELSE f

\* ------------------------------------------------------- BatchManager
\* Mutant: the placeholder captures the generation before the current one.
NewDeferredResult_stale(s) ==
    [batcher_group |-> s.dispatch_group - 1, future |-> Pending,
     value |-> NoCache, async_value |-> "none"]

\* Mutant: the placeholder captures the generation after the current one.
NewDeferredResult_ahead(s) ==
    [batcher_group |-> s.dispatch_group + 1, future |-> Pending,
     value |-> NoCache, async_value |-> "none"]

NewDeferredResult(s) ==
    [batcher_group |-> s.dispatch_group, future |-> Pending,
     value |-> NoCache, async_value |-> "none"]

\* Mutant: the call is put at the head of the queue.
add_action_prepend(s, v, action_name, params) ==
    LET p == Cardinality(DOMAIN s.dr) + 1
    IN [s EXCEPT !.dr = @ @@ (p :> [batcher_group |-> s.dispatch_group,
                                    future |-> Pending, value |-> NoCache,
                                    async_value |-> "none"]),
                 !.actions = <<make_request(v, action_name, params)>> \o @,
                 !.futures = Append(@, p),
                 !.deferred_results = Append(@, p),
                 !.out = Value(Null)]

\* Mutant: queuing a call advances the generation counter.
add_action_advancing(s, v, action_name, params) ==
    LET p == Cardinality(DOMAIN s.dr) + 1
    IN [s EXCEPT !.dr = @ @@ (p :> NewDeferredResult(s)),
                 !.actions = Append(@, make_request(v, action_name, params)),
                 !.futures = Append(@, p),
                 !.deferred_results = Append(@, p),
                 !.dispatch_group = @ + 1,
                 !.out = Value(Null)]

add_action(s, v, action_name, params) ==
    LET p == Cardinality(DOMAIN s.dr) + 1
    IN [s EXCEPT !.dr = @ @@ (p :> NewDeferredResult(s)),
                 !.actions = Append(@, make_request(v, action_name, params)),
                 !.futures = Append(@, p),
                 !.deferred_results = Append(@, p),
                 !.out = Value(Null)]

RECURSIVE handle_loop(_, _, _)
handle_loop(s, responses, i) ==
    IF i > Len(responses)
    THEN [s EXCEPT !.futures = <<>>, !.actions = <<>>]
    ELSE LET fut == s.futures[i]
             res == responses[i]
             s1 == IF isException(res) THEN set_exception(s, fut, res)
                   ELSE set_result(s, fut, res)
         IN IF isException(s1.out) THEN s1
            ELSE handle_loop(s1, responses, i + 1)

\* Mutant: the responses are handed out from the last to the first.
handle_responses_reversed(s, responses) ==
    IF Len(s.futures) # Len(responses) THEN Raise(s, AssertionError)
    ELSE handle_loop(s, [i \in 1..Len(responses) |->
                            responses[Len(responses) + 1 - i]], 1)

\* Mutant: the delivery leaves the queue of calls as it was.
handle_responses_keepactions(s, responses) ==
    IF Len(s.futures) # Len(responses) THEN Raise(s, AssertionError)
    ELSE [handle_loop(s, responses, 1) EXCEPT !.actions = s.actions]

\* Mutant: the delivery clears neither queue.
handle_responses_keepboth(s, responses) ==
    IF Len(s.futures) # Len(responses) THEN Raise(s, AssertionError)
    ELSE [handle_loop(s, responses, 1) EXCEPT !.actions = s.actions,
                                              !.futures = s.futures]

handle_responses(s, responses) ==
    IF Len(s.futures) # Len(responses) THEN Raise(s, AssertionError)
    ELSE handle_loop(s, responses, 1)

\* Client.invoke_no_batch / AsyncClient.invoke_no_batch up to the post:
\* the request body is built and handed to the transport.
post(s, action, params) ==
    [s EXCEPT !.requests =
        Append(@, [body |-> make_request(version, action, params),
                   group |-> s.dispatch_group])]

\* ... and from the post on: the exception raised, or the value returned.
receive(status, list) ==
    CASE status = "RequestError" ->
            Exc("APIException", "An error occurred while requesting")
      [] status = "HTTPStatusError" ->
            Exc("APIException", "HTTP error occurred")
      [] OTHER -> parse_response(Body(status, list))

\* Mutants: the envelopes of the reply are parsed without the check of the
\* number of fields, and without a look at the error field.
parse_each_nolen(responses) ==
    [i \in 1..Len(responses) |-> parse_response_nolen(responses[i])]
parse_each_noerror(responses) ==
    [i \in 1..Len(responses) |-> parse_response_noerror(responses[i])]

\* sync_dispatch / async_dispatch, lines 74 and 82.
parse_each(responses) ==
    [i \in 1..Len(responses) |-> parse_response(responses[i])]

\* Mutant: the generation counter is not advanced before the network call.
dispatch_send_noincrement(s) ==
    post(s, "multi", [actions |-> s.actions])

\* Mutant: the generation counter is advanced by two.
dispatch_send_twice(s) ==
    post([s EXCEPT !.dispatch_group = @ + 2], "multi", [actions |-> s.actions])

\* sync_dispatch / async_dispatch up to the network call (lines 70-73, 78-81).
dispatch_send(s) ==
    post([s EXCEPT !.dispatch_group = @ + 1], "multi", [actions |-> s.actions])

\* sync_dispatch / async_dispatch after the network call (lines 73-75, 81-83).
dispatch_receive(s, status, list) ==
    LET responses == receive(status, list)
        s2 == IF isException(responses) THEN Raise(s, responses)
              ELSE handle_responses(s, parse_each(responses.val))
    IN [s2 EXCEPT !.flush = IF isException(s2.out) THEN "raised" ELSE "ok"]

\* Mutant: an empty queue is dispatched like any other.
sync_dispatch_noguard(s, status, list) ==
    dispatch_receive(dispatch_send(s), status, list)

sync_dispatch(s, status, list) ==
    IF s.actions = <<>> THEN Return(s, Value(Null))
    ELSE dispatch_receive(dispatch_send(s), status, list)

\* async_dispatch, lines 85-91: every retained placeholder is awaited in turn.
\* `stop` says how the loop ended: "done" (the list is then cleared), or
\* suspended at index `at`, either on a pending future ("fut") or in the
\* network call of a dispatch the awaited placeholder started ("net").
RECURSIVE drain_loop(_, _)
drain_loop(s, i) ==
    IF i > Len(s.deferred_results)
    THEN [s EXCEPT !.deferred_results = <<>>, !.stop = "done"]
    ELSE LET p == s.deferred_results[i]
         IN IF s.dr[p].batcher_group >= s.dispatch_group /\ s.actions # <<>>
            THEN [dispatch_send(s) EXCEPT !.stop = "net", !.at = i]
            ELSE IF s.dr[p].future = Pending
            THEN [s EXCEPT !.stop = "fut", !.at = i]
            ELSE IF s.dr[p].future.kind \in AnkiAPIException \cup {"value"}
            THEN drain_loop(s, i + 1)
            ELSE Raise(s, s.dr[p].future)

\* Mutant: the drain does not swallow the failure of a placeholder.
async_dispatch_resume_noswallow(s, status, list, auto) ==
    LET s1 == dispatch_receive(s, status, list)
        bad == {i \in 1..Len(s1.deferred_results) :
                   isException(s1.dr[s1.deferred_results[i]].future)}
    IN IF isException(s1.out) \/ ~auto THEN s1
       ELSE IF bad = {} THEN drain_loop(s1, 1)
       ELSE Raise(s1, s1.dr[s1.deferred_results[
                         CHOOSE i \in bad : \A j \in bad : i <= j]].future)

\* async_dispatch after the network call (lines 81-91).
async_dispatch_resume(s, status, list, auto) ==
    LET s1 == dispatch_receive(s, status, list)
    IN IF isException(s1.out) \/ ~auto THEN s1 ELSE drain_loop(s1, 1)

\* ----------------------------------------------------- DeferredResult
\* Mutant: the generation is not compared; every uncached read dispatches.
value_get_always(s, p, status, list) ==
    IF s.dr[p].value # NoCache THEN Return(s, s.dr[p].value)
    ELSE LET s1 == sync_dispatch(s, status, list)
         IN IF isException(s1.out) THEN s1
            ELSE LET r == result(s1.dr[p].future)
                 IN IF isException(r) THEN Raise(s1, r)
                    ELSE [s1 EXCEPT !.out = r, !.dr[p].value = r]

\* Mutant: the read dispatches only when the captured generation is ahead of
\* the counter.
value_get_strict(s, p, status, list) ==
    IF s.dr[p].value # NoCache THEN Return(s, s.dr[p].value)
    ELSE LET s1 == IF s.dr[p].batcher_group > s.dispatch_group
                   THEN sync_dispatch(s, status, list)
                   ELSE s
         IN IF isException(s1.out) THEN s1
            ELSE LET r == result(s1.dr[p].future)
                 IN IF isException(r) THEN Raise(s1, r)
                    ELSE [s1 EXCEPT !.out = r, !.dr[p].value = r]

value_get(s, p, status, list) ==
    IF s.dr[p].value # NoCache THEN Return(s, s.dr[p].value)
    ELSE LET s1 == IF s.dr[p].batcher_group >= s.dispatch_group
                   THEN sync_dispatch(s, status, list)
                   ELSE s
         IN IF isException(s1.out) THEN s1
            ELSE LET r == result(s1.dr[p].future)
                 IN IF isException(r) THEN Raise(s1, r)
                    ELSE [s1 EXCEPT !.out = r, !.dr[p].value = r]

\* __await__, line 102: wait for the future, then its value or exception.
await_future(s, p) ==
    IF s.dr[p].future = Pending THEN Return(s, Suspended)
    ELSE Return(s, s.dr[p].future)

\* async_value, line 108.
async_value_result(s, p) ==
    [s EXCEPT !.out = result(s.dr[p].future), !.dr[p].async_value = "finished"]

\* What a resolution does once its dispatch has returned or was skipped.
resolve_finish(s, op, p) ==
    CASE op = "await" -> await_future(s, p)
      [] op = "async_value" -> async_value_result(s, p)
      [] OTHER -> Return(s, Value(Null))

\* A resolution whose dispatch raised: the exception reaches the caller.
resolve_raise(s, op, p) ==
    IF op = "async_value" THEN [s EXCEPT !.dr[p].async_value = "finished"]
    ELSE s

\* ------------------------------------------------------------ actions
\* The number of calls the request made by resolving p carries (0: none made).
WillSend(p) ==
    IF dr[p].value = NoCache /\ dr[p].batcher_group >= dispatch_group
    THEN Len(actions) ELSE 0

Op(name, p, s) ==
    [op |-> name, p |-> p, out |-> s.out,
     sent |-> Len(s.requests) - Len(requests), flush |-> s.flush]

InFlight == \E t \in Tasks : task[t].pc = "net"

\* A task: where it is suspended, in which operation on which placeholder,
\* and the request it awaits the reply to (`req`, its place in `requests`).
Idle == [pc |-> "idle", op |-> "none", p |-> 0, req |-> 0, at |-> 0]
InNet(op, p) ==
    [pc |-> "net", op |-> op, p |-> p, req |-> Len(requests) + 1, at |-> 0]
OnFuture(op, p) == [pc |-> "fut", op |-> op, p |-> p, req |-> 0, at |-> 0]

\* The calls a composite request carries.
CallsOf(req) == req.body.params.actions
EnvelopeOf(p) == make_request(version, CallOf(p).action, CallOf(p).params)
Carries(req, p) == \E k \in 1..Len(CallsOf(req)) : CallsOf(req)[k] = EnvelopeOf(p)
PlaceOf(req, p) == CHOOSE k \in 1..Len(CallsOf(req)) : CallsOf(req)[k] = EnvelopeOf(p)

\* The endpoint answers a request: each call it carries is answered by the
\* envelope at the call's place in the reply ("ok"), or with the reply's
\* failure ("count": a result list of another length).
Replied(req, status, list) ==
    [p \in DR |->
        IF ~Carries(req, p) THEN answer[p]
        ELSE IF status # "ok" THEN [status |-> status, env |-> NoEnvelope]
        ELSE IF Len(list) # Len(CallsOf(req))
        THEN [status |-> "count", env |-> NoEnvelope]
        ELSE [status |-> "ok", env |-> list[PlaceOf(req, p)]]]

\* The step of a blocking operation: the reply to the request it posted, if any.
SyncReply(s, status, list) ==
    answer' = IF Len(s.requests) > Len(requests)
              THEN Replied(s.requests[Len(s.requests)], status, list)
              ELSE answer

\* Tasks are interchangeable: a new operation runs in the first idle one.
Runs(t) ==
    /\ task[t].pc = "idle"
    /\ t = "t2" => task["t1"].pc # "idle"

\* A batch scope that has been entered: the generator of make_batch or
\* send_batch suspended at its yield, holding old_batcher.  `base` is the
\* number of calls queued before the scope was entered.
Scope(kind, old, base) == [kind |-> kind, old_batcher |-> old, base |-> base]
Front(seq) == SubSeq(seq, 1, Len(seq) - 1)
ExitOp(kind) ==
    IF kind = "send_batch" THEN "exit_send_batch" ELSE "exit_make_batch"
Exits(op) == op \in {"exit_send_batch", "exit_make_batch"}

\* Whether resolving p starts a dispatch that posts a request.
Dispatches(p) == dr[p].batcher_group >= dispatch_group /\ actions # <<>>

Init ==
    /\ client \in {"sync", "async"}
    /\ auto_await \in (IF client = "async" THEN BOOLEAN ELSE {TRUE})
    /\ actions = <<>>
    /\ futures = <<>>
    /\ deferred_results = <<>>
    /\ dispatch_group = 0
    /\ dr = <<>>
    /\ task = [t \in {"t1"} |-> Idle]
    /\ requests = <<>>
    /\ answer = <<>>
    /\ lastOp = [op |-> "init", p |-> 0, out |-> Value(Null), sent |-> 0,
                 flush |-> "none"]
    /\ batcher = TRUE
    /\ scopes = <<Scope("make_batch", FALSE, 0)>>
    /\ endpoint = "any"
    /\ blocking = NoTwin

\* BatchManager.invoke / add_action: the caller queues one call.  A task
\* may do so while another task's flush is suspended in the network call.
AddAction ==
    /\ Cardinality(DR) < MaxCalls
    /\ client = "async" => \E t \in Tasks : task[t].pc = "idle"
    /\ LET call == CallOf(Cardinality(DR) + 1)
           s == add_action(Cur, version, call.action, call.params)
       IN /\ Commit(s)
          /\ answer' = answer @@ (Cardinality(DR) + 1 :> NoAnswer)
          /\ lastOp' = Op("add_action", Cardinality(DR) + 1, s)
    /\ UNCHANGED <<blocking, endpoint, client, auto_await, task, batcher, scopes>>

\* The caller reads placeholder.value (blocking client).
ReadValue ==
    /\ client = "sync"
    /\ \E p \in DR :
         \E status \in Statuses(WillSend(p)) :
            \E list \in ResultLists(status, WillSend(p)) :
              LET s == value_get(Cur, p, status, list)
              IN /\ Len(s.requests) <= MaxRequests
                 /\ Commit(s)
                 /\ SyncReply(s, status, list)
                 /\ lastOp' = Op("value", p, s)
    /\ UNCHANGED <<blocking, endpoint, client, auto_await, task, batcher, scopes>>

\* The caller flushes explicitly (Client.send_batch does so on exit).
SyncDispatch ==
    /\ client = "sync"
    /\ \E status \in Statuses(Len(actions)) :
       \E list \in ResultLists(status, Len(actions)) :
         LET s == sync_dispatch(Cur, status, list)
         IN /\ Len(s.requests) <= MaxRequests
            /\ Commit(s)
            /\ SyncReply(s, status, list)
            /\ lastOp' = Op("sync_dispatch", 0, s)
    /\ UNCHANGED <<blocking, endpoint, client, auto_await, task, batcher, scopes>>

\* A task runs `await placeholder` up to its first suspension.
Await ==
    /\ client = "async"
    /\ \E t \in Tasks, p \in DR :
         /\ Runs(t)
         /\ IF Dispatches(p)
            THEN LET s == Return(dispatch_send(Cur), Suspended)
                 IN /\ Len(s.requests) <= MaxRequests
                    /\ Commit(s)
                    /\ task' = [task EXCEPT ![t] = InNet("await", p)]
                    /\ lastOp' = Op("await", p, s)
            ELSE LET s == await_future(Cur, p)
                 IN /\ Commit(s)
                    /\ task' = [task EXCEPT ![t] =
                          IF s.out = Suspended THEN OnFuture("await", p)
                          ELSE Idle]
                    /\ lastOp' = Op("await", p, s)
    /\ UNCHANGED <<blocking, endpoint, client, auto_await, answer, batcher, scopes>>

\* A task runs `await placeholder.async_value` up to its first suspension.
AsyncValue ==
    /\ client = "async"
    /\ \E t \in Tasks, p \in DR :
         /\ Runs(t)
         /\ IF dr[p].async_value # "none"
            THEN LET s == Raise(Cur, RuntimeError(
                            IF dr[p].async_value = "running"
                            THEN "coroutine is being awaited already"
                            ELSE "cannot reuse already awaited coroutine"))
                 IN /\ Commit(s)
                    /\ task' = task
                    /\ lastOp' = Op("async_value", p, s)
            ELSE IF Dispatches(p)
            THEN LET s0 == Return(dispatch_send(Cur), Suspended)
                     s == [s0 EXCEPT !.dr[p].async_value = "running"]
                 IN /\ Len(s.requests) <= MaxRequests
                    /\ Commit(s)
                    /\ task' = [task EXCEPT ![t] = InNet("async_value", p)]
                    /\ lastOp' = Op("async_value", p, s)
            ELSE LET s == async_value_result(Cur, p)
                 IN /\ Commit(s)
                    /\ task' = task
                    /\ lastOp' = Op("async_value", p, s)
    /\ UNCHANGED <<blocking, endpoint, client, auto_await, answer, batcher, scopes>>

\* A task flushes explicitly (AsyncClient.send_batch does so on exit), up to
\* the network call.
AsyncDispatch ==
    /\ client = "async"
    /\ ~InFlight
    /\ \E t \in Tasks :
         /\ Runs(t)
         /\ IF actions # <<>>
            THEN LET s == Return(dispatch_send(Cur), Suspended)
                 IN /\ Len(s.requests) <= MaxRequests
                    /\ Commit(s)
                    /\ task' = [task EXCEPT ![t] = InNet("async_dispatch", 0)]
                    /\ lastOp' = Op("async_dispatch", 0, s)
            ELSE /\ Commit(Cur)
                 /\ task' = task
                 /\ lastOp' = Op("async_dispatch", 0, Cur)
    /\ UNCHANGED <<blocking, endpoint, client, auto_await, answer, batcher, scopes>>

\* The endpoint's reply reaches the task suspended in the network call; the
\* task runs on to its next suspension or to the end of its operation.
NetReply ==
    /\ \E t \in Tasks :
         /\ task[t].pc = "net"
         /\ \E status \in Statuses(Len(CallsOf(requests[task[t].req]))) :
            \E list \in ResultLists(status, Len(CallsOf(requests[task[t].req]))) :
              LET op == task[t].op
                  p == task[t].p
                  s1 == async_dispatch_resume(Cur, status, list, auto_await)
                  s == IF isException(s1.out) THEN resolve_raise(s1, op, p)
                       ELSE IF s1.stop # "done" THEN Return(s1, Suspended)
                       ELSE resolve_finish(s1, op, p)
              IN /\ Commit(s)
                 /\ answer' = Replied(requests[task[t].req], status, list)
                 /\ task' = [task EXCEPT ![t] =
                       IF s.stop # "done"
                       THEN [pc |-> "drain", op |-> op, p |-> p,
                             req |-> 0, at |-> s.at]
                       ELSE IF s.out = Suspended THEN OnFuture(op, p)
                       ELSE Idle]
                 /\ lastOp' = Op(op, p, s)
                 /\ scopes' = IF Exits(op) /\ s.out # Suspended
                              THEN Front(scopes) ELSE scopes
                 /\ batcher' = IF Exits(op) /\ s.out = Value(Null)
                               THEN scopes[Len(scopes)].old_batcher
                               ELSE batcher
    /\ UNCHANGED <<blocking, endpoint, client, auto_await>>

\* The future a task waits on in `await placeholder` has got its outcome.
FutureDone ==
    /\ \E t \in Tasks :
         /\ task[t].pc = "fut"
         /\ dr[task[t].p].future # Pending
         /\ LET s == await_future(Cur, task[t].p)
            IN /\ Commit(s)
               /\ task' = [task EXCEPT ![t] = Idle]
               /\ lastOp' = Op("await", task[t].p, s)
    /\ UNCHANGED <<blocking, endpoint, client, auto_await, answer, batcher, scopes>>

\* One thread of control: the blocking client, or the asynchronous client
\* used by a single task.
Next ==
    \/ AddAction
    \/ ReadValue
    \/ SyncDispatch
    \/ Await
    \/ AsyncValue
    \/ AsyncDispatch
    \/ NetReply

Spec == Init /\ [][Next]_vars

\* The asynchronous client with two tasks resolving placeholders concurrently.
InitConc ==
    /\ client = "async"
    /\ auto_await \in BOOLEAN
    /\ actions = <<>>
    /\ futures = <<>>
    /\ deferred_results = <<>>
    /\ dispatch_group = 0
    /\ dr = <<>>
    /\ task = [t \in {"t1", "t2"} |-> Idle]
    /\ requests = <<>>
    /\ answer = <<>>
    /\ lastOp = [op |-> "init", p |-> 0, out |-> Value(Null), sent |-> 0,
                 flush |-> "none"]
    /\ batcher = TRUE
    /\ scopes = <<Scope("make_batch", FALSE, 0)>>
    /\ endpoint = "any"
    /\ blocking = NoTwin

NextConc ==
    \/ AddAction
    \/ Await
    \/ AsyncValue
    \/ AsyncDispatch
    \/ NetReply
    \/ FutureDone

SpecConc == InitConc /\ [][NextConc]_vars


\* ------------------------------------------------- the client's scopes
\* What client.invoke returns while a coordinator is active.
Placeholder(p) == [kind |-> "placeholder", val |-> p]

\* The replies to an unbatched request: a transport failure, a bad HTTP
\* status, or a JSON object with any of the keys error, result and extra.
ReplyKeys == {"error", "result", "extra"}
FieldValues(k) ==
    CASE k = "error" -> {Null, "boom"}
      [] k = "result" -> {Null, "r1"}
      [] OTHER -> {Null, "x"}
ReplyBodies ==
    IF endpoint = "plain" THEN {Env(Null, "r1")}
    ELSE
    UNION {{f \in [S -> {Null, "boom", "r1", "x"}] :
               \A k \in S : f[k] \in FieldValues(k)} : S \in SUBSET ReplyKeys}
UnbatchedStatuses ==
    IF endpoint = "plain" THEN {"RequestError", "reply"}
    ELSE {"RequestError", "HTTPStatusError", "reply"}
NoReply == [status |-> "none", body |-> NoEnvelope]

\* Mutant: a request that failed in transport is posted once more.
invoke_no_batch_retry(s, action, params, status, body) ==
    LET s1 == post(s, action, params)
        parsed_response == parse_response(body)
    IN CASE status = "RequestError" ->
              Raise(post(s1, action, params),
                    Exc("APIException", "An error occurred while requesting"))
         [] status = "HTTPStatusError" ->
              Raise(post(s1, action, params),
                    Exc("APIException", "HTTP error occurred"))
         [] OTHER -> IF isException(parsed_response)
                     THEN Raise(s1, parsed_response)
                     ELSE Return(s1, parsed_response)

\* Client.invoke_no_batch / AsyncClient.invoke_no_batch: one request is
\* posted; a transport or HTTP-status failure is raised as APIException, and
\* so is what parse_response makes of the reply when that is an exception.
invoke_no_batch(s, action, params, status, body) ==
    LET s1 == post(s, action, params)
        parsed_response == parse_response(body)
    IN CASE status = "RequestError" ->
              Raise(s1, Exc("APIException", "An error occurred while requesting"))
         [] status = "HTTPStatusError" ->
              Raise(s1, Exc("APIException", "HTTP error occurred"))
         [] OTHER -> IF isException(parsed_response)
                     THEN Raise(s1, parsed_response)
                     ELSE Return(s1, parsed_response)

\* A client.invoke and what it was given: the call, and the endpoint's reply
\* when the call went out unbatched.
Invoked(o, call, reply) ==
    [op |-> o.op, p |-> o.p, out |-> o.out, sent |-> o.sent,
     flush |-> o.flush, call |-> call, reply |-> reply]

\* Mutants: every scope flushes on exit; no scope does.
exit_flushes_always(kind) == TRUE
exit_flushes_never(kind) == FALSE

\* send_batch dispatches after its yield, make_batch does not.
exit_flushes(kind) == kind = "send_batch"

\* Client.invoke / AsyncClient.invoke: the call is queued on the active
\* coordinator, or sent at once.  (The asynchronous client awaits the post;
\* with one task running, the post and its reply are one step.)  The calls
\* sent at once differ from one another like the queued ones.
ClientInvoke ==
    /\ \A t \in Tasks : task[t].pc = "idle"
    /\ IF batcher
       THEN /\ Cardinality(DR) < MaxCalls
            /\ LET new == Cardinality(DR) + 1
                   call == CallOf(new)
                   s == Return(add_action(Cur, version, call.action, call.params),
                               Placeholder(new))
               IN /\ Commit(s)
                  /\ answer' = answer @@ (new :> NoAnswer)
                  /\ lastOp' = Invoked(Op("invoke", new, s), call, NoReply)
       ELSE /\ Len(requests) < MaxRequests
            /\ \E status \in UnbatchedStatuses :
                 \E body \in (IF status = "reply" THEN ReplyBodies
                              ELSE {NoEnvelope}) :
                    LET call == CallOf(Len(requests) + 1)
                        s == invoke_no_batch(Cur, call.action, call.params,
                                             status, body)
                    IN /\ Commit(s)
                       /\ answer' = answer
                       /\ lastOp' = Invoked(Op("invoke", 0, s), call,
                                            [status |-> status, body |-> body])
    /\ UNCHANGED <<blocking, endpoint, client, auto_await, task, batcher, scopes>>

\* `with client.make_batch()` / `with client.send_batch()` up to the yield.
\* A coordinator is made when the client has none; the model follows one
\* coordinator, so a scope is not entered where a second one would be made.
EnterScope ==
    /\ Len(scopes) < MaxDepth
    /\ \A t \in Tasks : task[t].pc = "idle"
    /\ ~batcher => DR = {}
    /\ \E kind \in {"make_batch", "send_batch"} :
         /\ scopes' = Append(scopes, Scope(kind, batcher, Cardinality(DR)))
         /\ lastOp' = Op(kind, 0, Cur)
    /\ batcher' = TRUE
    /\ Commit(Cur)
    /\ UNCHANGED <<blocking, endpoint, client, auto_await, task, answer>>

\* The body of the innermost scope ends normally: the generator runs on from
\* its yield (for the asynchronous send_batch, up to the network call).
ExitScope ==
    /\ scopes # <<>>
    /\ \A t \in Tasks : task[t].pc = "idle"
    /\ LET f == scopes[Len(scopes)]
       IN IF ~exit_flushes(f.kind) \/ (client = "async" /\ actions = <<>>)
          THEN /\ Commit(Cur)
               /\ scopes' = Front(scopes)
               /\ batcher' = f.old_batcher
               /\ UNCHANGED <<task, answer>>
               /\ lastOp' = Op(ExitOp(f.kind), 0, Cur)
          ELSE IF client = "sync"
          THEN \E status \in Statuses(Len(actions)) :
               \E list \in ResultLists(status, Len(actions)) :
                  LET s == sync_dispatch(Cur, status, list)
                  IN /\ Len(s.requests) <= MaxRequests
                     /\ Commit(s)
                     /\ SyncReply(s, status, list)
                     /\ scopes' = Front(scopes)
                     /\ batcher' = IF isException(s.out) THEN batcher
                                   ELSE f.old_batcher
                     /\ task' = task
                     /\ lastOp' = Op(ExitOp(f.kind), 0, s)
          ELSE \E t \in Tasks :
                  LET s == Return(dispatch_send(Cur), Suspended)
                  IN /\ Runs(t)
                     /\ Len(s.requests) <= MaxRequests
                     /\ Commit(s)
                     /\ task' = [task EXCEPT ![t] = InNet(ExitOp(f.kind), 0)]
                     /\ UNCHANGED <<scopes, batcher, answer>>
                     /\ lastOp' = Op(ExitOp(f.kind), 0, s)
    /\ UNCHANGED <<blocking, endpoint, client, auto_await>>

\* The body of the innermost scope raises: the exception is thrown into the
\* generator at its yield, and nothing after the yield runs.
ExitScopeRaise ==
    /\ scopes # <<>>
    /\ \A t \in Tasks : task[t].pc = "idle"
    /\ Commit(Cur)
    /\ scopes' = Front(scopes)
    /\ lastOp' = Op("exit_raise", 0,
                    Raise(Cur, Exc("Exception", "raised in the scope body")))
    /\ UNCHANGED <<blocking, endpoint, client, auto_await, task, answer, batcher>>

\* A client that has no coordinator yet (BaseClient.__init__), used by one
\* thread of control, with an endpoint that replies as e says.
InitClient(e) ==
    /\ endpoint = e
    /\ client \in {"sync", "async"}
    /\ auto_await = TRUE
    /\ actions = <<>>
    /\ futures = <<>>
    /\ deferred_results = <<>>
    /\ dispatch_group = 0
    /\ dr = <<>>
    /\ task = [t \in {"t1"} |-> Idle]
    /\ requests = <<>>
    /\ answer = <<>>
    /\ lastOp = [op |-> "init", p |-> 0, out |-> Value(Null), sent |-> 0,
                 flush |-> "none"]
    /\ batcher = FALSE
    /\ scopes = <<>>
    /\ blocking = NoTwin

\* The client opens and leaves batch scopes.  What the scopes do depends on
\* whether a request fails, not on what the reply holds: the endpoint is plain.
InitScopes == InitClient("plain")

NextScopes ==
    \/ EnterScope
    \/ ExitScope
    \/ ExitScopeRaise
    \/ ClientInvoke
    \/ ReadValue
    \/ Await
    \/ NetReply

SpecScopes == InitScopes /\ [][NextScopes]_vars

\* The client used without any batch scope.
NextUnbatched == ClientInvoke

InitUnbatched == InitClient("any")

SpecUnbatched == InitUnbatched /\ [][NextUnbatched]_vars


\* ---------------------------------------------------------------- claims
IsResolve(o) == o.op \in {"value", "await", "async_value"}

\* A resolution that has given its caller the placeholder's outcome (it is not
\* suspended, and not the re-use of a spent async_value coroutine).
Completed(o) ==
    IsResolve(o) /\ o.out # Suspended /\ o.out.kind # "RuntimeError"

Sent(p) == \E i \in 1..Len(requests) : Carries(requests[i], p)

RECURSIVE Ascending(_)
Ascending(S) ==
    IF S = {} THEN <<>>
    ELSE LET m == CHOOSE x \in S : \A y \in S : x <= y
         IN <<m>> \o Ascending(S \ {m})

\* The envelopes of the calls in the queue, in the order they were queued
\* (placeholders are numbered in the order add_action created them).
QueuedEnvelopes ==
    LET ids == Ascending({futures[i] : i \in 1..Len(futures)})
    IN [i \in 1..Len(ids) |-> EnvelopeOf(ids[i])]

WellFormed(env) == DOMAIN env = {"error", "result"}

\* C1: when a composite request of N calls is answered by a well-formed reply
\* of N envelopes, the placeholder of the call at place K of the request holds
\* the outcome parsed from the K-th envelope, and every resolution of it gives
\* that outcome, in whatever order the placeholders are resolved.
C1_PositionDemux ==
    /\ \A p \in DR :
         answer[p].status = "ok" => dr[p].future = parse_response(answer[p].env)
    /\ (Completed(lastOp) /\ answer[lastOp.p].status = "ok")
         => lastOp.out = parse_response(answer[lastOp.p].env)

\* Two calls of one request were answered differently and the first is
\* resolved after the second.
C1_Witness ==
    /\ Len(requests) = 1
    /\ DR = {1, 2}
    /\ answer[1].status = "ok" /\ answer[2].status = "ok"
    /\ answer[1].env # answer[2].env
    /\ Completed(lastOp) /\ lastOp.p = 1 /\ lastOp.flush = "none"
    /\ dr[2].value # NoCache

\* C2: a step posts at most one request; a flush of a non-empty queue (every
\* step that advances the generation, and every explicit dispatch of a
\* non-empty queue) posts exactly one; and the request posted is a "multi"
\* request whose params have the single key actions, holding the envelopes of
\* the queued calls in the order they were queued.
C2_OneCompositeRequest ==
    [][LET n == Len(requests') - Len(requests)
           body == requests'[Len(requests')].body
       IN /\ n \in {0, 1}
          /\ dispatch_group' # dispatch_group => n = 1
          /\ (/\ lastOp'.op \in {"sync_dispatch", "async_dispatch"}
              /\ lastOp' # lastOp
              /\ actions # <<>>
              /\ ~InFlight) => n = 1
          /\ n = 1 =>
               /\ actions # <<>>
               /\ body.action = "multi"
               /\ DOMAIN body.params = {"actions"}
               /\ body.params.actions = QueuedEnvelopes
               /\ Len(body.params.actions) = Len(actions)]_vars

\* A request carrying two calls has just been posted.
C2_Witness ==
    /\ lastOp.sent = 1
    /\ Len(CallsOf(requests[Len(requests)])) = 2
    /\ CallsOf(requests[Len(requests)])[1] = EnvelopeOf(1)
    /\ CallsOf(requests[Len(requests)])[2] = EnvelopeOf(2)

\* C3: an explicit flush of an empty queue posts no request, leaves the
\* generation counter unchanged and changes no placeholder.
C3_EmptyFlushNoOp ==
    [][(/\ lastOp'.op \in {"sync_dispatch", "async_dispatch"}
        /\ actions = <<>>
        /\ ~InFlight)
       => UNCHANGED <<requests, dispatch_group, dr, actions, futures,
                      deferred_results, answer, task>>]_vars

\* An empty flush after an earlier flush has delivered its outcomes.
C3_Witness ==
    /\ lastOp.op \in {"sync_dispatch", "async_dispatch"}
    /\ lastOp.sent = 0 /\ lastOp.flush = "none" /\ lastOp.out = Value(Null)
    /\ actions = <<>>
    /\ DR # {}
    /\ \A p \in DR : dr[p].future # Pending

\* C4: once a placeholder has been resolved, exactly one request has been
\* posted for its generation, however many placeholders of that generation
\* were resolved and in whatever style; a resolution posts a request only if
\* no flush has happened since its placeholder was queued.
C4_OneFlushPerGeneration ==
    IsResolve(lastOp) =>
        LET g == dr[lastOp.p].batcher_group
        IN /\ Cardinality({i \in 1..Len(requests) : requests[i].group = g + 1}) = 1
           /\ lastOp.sent = 1 =>
                \A i \in 1..(Len(requests) - 1) : requests[i].group <= g

\* Two placeholders of one generation have both been resolved, the second
\* without a request of its own.
C4_Witness ==
    /\ IsResolve(lastOp) /\ lastOp.p = 2 /\ lastOp.sent = 0
    /\ dr[1].batcher_group = dr[2].batcher_group
    /\ dr[1].value # NoCache \/ dr[1].async_value = "finished"
    /\ Len(requests) = 1

\* C5: when a flush started by resolving one placeholder has delivered, every
\* placeholder created so far holds a value or a failure, the ones never
\* resolved included.
C5_FanOut ==
    (IsResolve(lastOp) /\ lastOp.flush = "ok")
        => \A q \in DR : dr[q].future # Pending

\* The flush started by resolving one placeholder gave an outcome to another
\* that was never resolved.
C5_Witness ==
    /\ IsResolve(lastOp) /\ lastOp.flush = "ok"
    /\ \E q \in DR :
         /\ q # lastOp.p
         /\ dr[q].value = NoCache /\ dr[q].async_value = "none"
         /\ dr[q].future.kind = "value"

\* C6: a placeholder whose call no request has carried yet is of the current
\* generation and has its call in the queue, so its first resolution flushes;
\* and once a placeholder has been resolved, a request has carried its call.
C6_GenerationIsolation ==
    /\ \A p \in DR :
         ~Sent(p) =>
            /\ dr[p].batcher_group = dispatch_group
            /\ \E k \in 1..Len(actions) : actions[k] = EnvelopeOf(p)
    /\ IsResolve(lastOp) => Sent(lastOp.p)

\* A placeholder queued after a delivered flush is resolved and its call goes
\* out in a second request that carries only it.
C6_Witness ==
    /\ Len(requests) = 2
    /\ answer[1].status = "ok"
    /\ IsResolve(lastOp) /\ lastOp.p = 2 /\ lastOp.sent = 1
    /\ dr[2].batcher_group = 1
    /\ ~Carries(requests[1], 2)
    /\ Carries(requests[2], 2) /\ ~Carries(requests[2], 1)

\* C7: in a delivered composite reply an {error, result} envelope with a
\* non-null error makes exactly its own placeholder raise an application
\* error carrying that string, an envelope with a null error makes its own
\* placeholder return the result, and resolving a placeholder of a batch
\* already flushed posts no further request.
C7_ApplicationErrorIsolation ==
    /\ \A p \in DR :
         (answer[p].status = "ok" /\ WellFormed(answer[p].env)) =>
            dr[p].future =
               IF answer[p].env.error # Null
               THEN Exc("APIException", answer[p].env.error)
               ELSE Value(answer[p].env.result)
    /\ (/\ Completed(lastOp)
        /\ answer[lastOp.p].status = "ok"
        /\ WellFormed(answer[lastOp.p].env)) =>
            /\ lastOp.out.kind = "APIException"
                 <=> answer[lastOp.p].env.error # Null
            /\ lastOp.out.val =
                 IF answer[lastOp.p].env.error # Null
                 THEN answer[lastOp.p].env.error
                 ELSE answer[lastOp.p].env.result
            /\ lastOp.flush = "none" => lastOp.sent = 0

\* One request was answered with a failed and a successful envelope, and the
\* placeholder of the successful one is resolved and returns its result.
C7_Witness ==
    /\ Len(requests) = 1
    /\ Completed(lastOp) /\ lastOp.out = Value("r1") /\ lastOp.sent = 0
    /\ \E q \in DR :
         /\ q # lastOp.p
         /\ answer[q].status = "ok"
         /\ answer[q].env = Env("boom", Null)
         /\ dr[q].future = Exc("APIException", "boom")

\* C8: every placeholder of a flush whose request failed in transport (or
\* whose top-level reply failed) raises that failure when it is resolved.
C8_TransportFailureToAll ==
    (/\ Completed(lastOp)
     /\ answer[lastOp.p].status
          \in {"RequestError", "HTTPStatusError", "error", "malformed"})
        => lastOp.out = receive(answer[lastOp.p].status, <<>>)

\* C9: every placeholder of a flush whose reply holds another number of
\* envelopes than the request holds calls raises UnexpectedAPIResponse when
\* it is resolved.
C9_CountMismatchToAll ==
    (Completed(lastOp) /\ answer[lastOp.p].status = "count")
        => lastOp.out.kind = "UnexpectedAPIResponse"

\* C10: in a delivered composite reply, an envelope whose key set is not
\* {error, result} makes its own placeholder, and no other, fail with
\* UnexpectedAPIResponse.
C10_MalformedEnvelopeIsolation ==
    /\ \A p \in DR :
         answer[p].status = "ok" =>
            (dr[p].future.kind = "UnexpectedAPIResponse"
               <=> ~WellFormed(answer[p].env))
    /\ (Completed(lastOp) /\ answer[lastOp.p].status = "ok") =>
            (lastOp.out.kind = "UnexpectedAPIResponse"
               <=> ~WellFormed(answer[lastOp.p].env))

\* One request was answered with a three-key envelope and a well-formed one;
\* the placeholder of the first raises the protocol violation when resolved
\* and the other holds its result.
C10_Witness ==
    /\ Completed(lastOp) /\ lastOp.out.kind = "UnexpectedAPIResponse"
    /\ Cardinality(DOMAIN answer[lastOp.p].env) = 3
    /\ \E q \in DR :
         /\ q # lastOp.p
         /\ answer[q].status = "ok"
         /\ dr[q].future = Value("r1")

\* ------------------------------------------------- claims C11 to C20
TransportStatuses == {"RequestError", "HTTPStatusError"}

\* The request a step has posted or has got the reply to: the latest one.
LatestRequest == requests[Len(requests)]

\* C11: every queued call is carried by at most one of the requests sent to
\* the endpoint, whatever became of the request that carried it.
C11_NoAutomaticRetry ==
    \A p \in DR :
        Cardinality({i \in 1..Len(requests) : Carries(requests[i], p)}) <= 1

\* C12: the generation counter is advanced by one when the request of a flush
\* is posted, and the step in which the flush fails in transport leaves it at
\* that value; a placeholder queued after such a failure captures the
\* advanced counter, and its first resolution posts a request carrying its
\* call.
C12_FailedFlushAdvances ==
    [][LET n == Len(requests') - Len(requests)
           failed == \E q \in DR : answer[q].status \in TransportStatuses
       IN /\ n = 1 => dispatch_group' = dispatch_group + 1
          /\ (/\ lastOp'.flush = "raised"
              /\ \E q \in DR : /\ Carries(LatestRequest', q)
                               /\ answer'[q].status \in TransportStatuses)
                => dispatch_group' = dispatch_group + n
          /\ (failed /\ lastOp'.op = "add_action" /\ DOMAIN dr' # DR)
                => /\ dispatch_group' = dispatch_group
                   /\ dr'[lastOp'.p].batcher_group = dispatch_group
          /\ (failed /\ IsResolve(lastOp') /\ ~InFlight /\ ~Sent(lastOp'.p))
                => /\ n = 1
                   /\ Carries(LatestRequest', lastOp'.p)]_vars

\* The first request failed in transport; the placeholder queued after it has
\* captured the advanced counter and its first resolution posts a second request.
C12_Witness ==
    /\ DR = {1, 2}
    /\ answer[1].status \in TransportStatuses
    /\ dr[1].batcher_group = 0 /\ dr[2].batcher_group = 1
    /\ IsResolve(lastOp) /\ lastOp.p = 2 /\ lastOp.sent = 1
    /\ Len(requests) = 2 /\ ~Carries(requests[1], 2) /\ Carries(requests[2], 2)
    /\ dispatch_group = 2

\* C13: a read of placeholder.value that follows a read of the same
\* placeholder.value returns the same value, or raises the same failure, and
\* posts no request.
C13_IdempotentValue ==
    [][(/\ lastOp.op = "value" /\ lastOp'.op = "value"
        /\ lastOp'.p = lastOp.p)
       => /\ lastOp'.out = lastOp.out
          /\ requests' = requests]_vars

\* C14: an asynchronous resolution of a placeholder whose flush was answered,
\* following a finished resolution of the same placeholder in the same style,
\* returns the same value, or raises the same failure, and posts no request.
C14_IdempotentAsync ==
    [][(/\ lastOp.op \in {"await", "async_value"}
        /\ lastOp.out # Suspended
        /\ answer[lastOp.p].status = "ok"
        /\ lastOp'.op = lastOp.op /\ lastOp'.p = lastOp.p
        /\ lastOp'.out # Suspended)
       => /\ lastOp'.out = lastOp.out
          /\ requests' = requests]_vars

\* C15: a placeholder whose captured generation is behind the counter holds a
\* value or a failure whenever no request is in flight, and a resolution that
\* skips the flush never finds the future without an outcome.
C15_BehindHoldsOutcome ==
    /\ \A p \in DR :
         (dr[p].batcher_group < dispatch_group /\ ~InFlight)
            => dr[p].future # Pending
    /\ (Completed(lastOp) /\ lastOp.flush = "none")
            => lastOp.out.kind # "InvalidStateError"

\* C16: the queue of calls and the queue of futures have the same length, and
\* the future at each place is that of the placeholder returned when the call
\* at that place was queued.
C16_ParallelQueues ==
    /\ Len(actions) = Len(futures)
    /\ \A i \in 1..Len(futures) :
         /\ futures[i] \in DR
         /\ actions[i] = EnvelopeOf(futures[i])

\* After a first flush a second call is waiting in the queue.
C16_Witness ==
    /\ Len(requests) = 1
    /\ Len(actions) = 1 /\ futures = <<2>>
    /\ dr[1].future # Pending

\* C17: when a flush of a non-empty queue has finished, by delivering or by
\* failing, the queue of calls and the queue of futures are empty.
C17_FlushLeavesEmptyQueues ==
    lastOp.flush # "none" => (actions = <<>> /\ futures = <<>>)

\* C18: the generation counter never decreases; a step that starts a flush of
\* a non-empty queue (an explicit dispatch, or a resolution of a placeholder
\* of the current generation) advances it by exactly one, and no other step
\* changes it.
C18_GenerationMonotone ==
    [][LET q == lastOp'.p
           starts ==
             /\ ~InFlight
             /\ actions # <<>>
             /\ \/ lastOp'.op \in {"sync_dispatch", "async_dispatch"}
                \/ /\ lastOp'.op = "value"
                   /\ dr[q].value = NoCache
                   /\ dr[q].batcher_group >= dispatch_group
                \/ /\ lastOp'.op = "await"
                   /\ dr[q].batcher_group >= dispatch_group
                \/ /\ lastOp'.op = "async_value"
                   /\ dr[q].async_value = "none"
                   /\ dr[q].batcher_group >= dispatch_group
       IN /\ dispatch_group' >= dispatch_group
          /\ dispatch_group' =
               IF starts THEN dispatch_group + 1 ELSE dispatch_group]_vars

\* Two flushes have advanced the counter to two, the second one failing.
C18_Witness ==
    /\ dispatch_group = 2
    /\ Len(requests) = 2
    /\ lastOp.flush = "raised"

\* C19: a future that holds a value or a failure keeps it in every later
\* step, so does a cached value, and no step fails because it sets the
\* outcome of a future that has one.
C19_OutcomeTerminal ==
    [][/\ \A p \in DR :
            /\ dr[p].future # Pending => dr'[p].future = dr[p].future
            /\ dr[p].value # NoCache => dr'[p].value = dr[p].value
       /\ lastOp'.out # Exc("InvalidStateError", "invalid state")]_vars

\* A second flush has delivered its outcome while the placeholder of the
\* first flush holds the outcome it got then.
C19_Witness ==
    /\ DR = {1, 2}
    /\ Len(requests) = 2
    /\ ~Carries(requests[2], 1)
    /\ answer[1].status = "ok" /\ dr[1].future = parse_response(answer[1].env)
    /\ lastOp.flush = "ok" /\ dr[2].future # Pending

\* C20: the step that queues a call posts no request, leaves the generation
\* counter unchanged, appends the call's envelope at the end of the queue and
\* its future at the end of the futures, creates one placeholder that is
\* pending and tagged with the current generation, and leaves every existing
\* placeholder as it was.
C20_QueuingFrame ==
    [][(lastOp'.op = "add_action" /\ lastOp' # lastOp) =>
          LET new == lastOp'.p
          IN /\ requests' = requests
             /\ dispatch_group' = dispatch_group
             /\ actions' = Append(actions, EnvelopeOf(new))
             /\ futures' = Append(futures, new)
             /\ new \notin DR
             /\ DOMAIN dr' = DR \cup {new}
             /\ dr'[new].future = Pending
             /\ dr'[new].value = NoCache
             /\ dr'[new].batcher_group = dispatch_group
             /\ \A p \in DR : dr'[p] = dr[p] /\ answer'[p] = answer[p]]_vars

\* A second call has been queued after the flush that gave the first
\* placeholder its outcome.
C20_Witness ==
    /\ lastOp.op = "add_action" /\ lastOp.p = 2
    /\ dr[1].future # Pending
    /\ dispatch_group = 1 /\ dr[2].batcher_group = 1
    /\ actions = <<EnvelopeOf(2)>>

\* ------------------------------------------------- claims C21 to C30
IsMulti(req) == req.body.action = "multi"
AllIdle == \A t \in Tasks : task[t].pc = "idle"
SentInBatch(p) ==
    \E i \in 1..Len(requests) : IsMulti(requests[i]) /\ Carries(requests[i], p)

\* C21 (as stated): a composite request is posted only by the step that
\* resolves one of the placeholders whose calls it carries, in make_batch and
\* in send_batch scopes alike.
C21_LazyBatching ==
    [][(Len(requests') = Len(requests) + 1 /\ IsMulti(LatestRequest'))
       => (IsResolve(lastOp') /\ Carries(LatestRequest', lastOp'.p))]_vars

\* C21 (amended): a composite request is posted only by the step that
\* resolves one of the placeholders whose calls it carries, or by the normal
\* exit from a send_batch scope; leaving a make_batch scope, queuing a call
\* and entering a scope post none.
C21_LazyOutsideSendBatch ==
    [][(Len(requests') = Len(requests) + 1 /\ IsMulti(LatestRequest'))
       => \/ IsResolve(lastOp') /\ Carries(LatestRequest', lastOp'.p)
          \/ lastOp'.op = "exit_send_batch"]_vars

\* The only scope, a make_batch scope, has been left with two calls queued
\* and no placeholder resolved: nothing has been sent.
C21_Witness ==
    /\ lastOp.op = "exit_make_batch"
    /\ scopes = <<>>
    /\ DR = {1, 2} /\ Len(actions) = 2
    /\ requests = <<>>

\* C22: the normal exit from a send_batch scope posts one composite request
\* holding all the calls still queued (none if the queue is empty), and the
\* scope is left only once the request has been answered; the exit from a
\* make_batch scope posts nothing and leaves queue and placeholders as they
\* are; and after all scopes are left, the first resolution of a placeholder
\* whose call has not been sent posts the request carrying it.
C22_ScopeExitPolicy ==
    [][LET n == Len(requests') - Len(requests)
       IN /\ (lastOp'.op = "exit_send_batch" /\ AllIdle) =>
               IF actions = <<>> THEN n = 0
               ELSE /\ n = 1
                    /\ IsMulti(LatestRequest')
                    /\ CallsOf(LatestRequest') = actions
                    /\ client = "async" =>
                         (scopes' = scopes /\ \E t \in Tasks : task'[t].pc = "net")
          /\ lastOp'.op = "exit_make_batch" =>
               /\ n = 0
               /\ actions' = actions /\ futures' = futures /\ dr' = dr
               /\ Len(scopes') = Len(scopes) - 1
          /\ (/\ scopes = <<>>
              /\ IsResolve(lastOp') /\ AllIdle
              /\ ~SentInBatch(lastOp'.p)) =>
               /\ n = 1
               /\ IsMulti(LatestRequest')
               /\ Carries(LatestRequest', lastOp'.p)]_vars

\* A send_batch scope has been left and its two queued calls, of which none
\* was resolved, went out in one request.
C22_Witness ==
    /\ lastOp.op = "exit_send_batch" /\ lastOp.sent = 1 /\ lastOp.flush = "ok"
    /\ scopes = <<>>
    /\ Len(requests) = 1 /\ Len(CallsOf(requests[1])) = 2
    /\ \A p \in DR : dr[p].value = NoCache

\* C23: with auto_await, the step in which an asynchronous flush delivers its
\* reply drains every retained placeholder: the retained list is emptied, no
\* task is left suspended, an explicit dispatch returns without raising and
\* a resolution gets the outcome of its own placeholder, whatever failures
\* the reply holds for the others; and a later resolution of a placeholder
\* whose envelope was a failure raises that failure.
C23_AutoDrainKeepsErrors ==
    [][(client = "async" /\ auto_await) =>
         /\ (InFlight /\ lastOp'.flush = "ok") =>
              /\ deferred_results' = <<>>
              /\ \A t \in Tasks : task'[t].pc = "idle"
              /\ lastOp'.op = "async_dispatch" => lastOp'.out = Value(Null)
              /\ IsResolve(lastOp') =>
                   lastOp'.out = parse_response(answer'[lastOp'.p].env)
              /\ \A p \in DR :
                   Carries(LatestRequest, p) =>
                      dr'[p].future = parse_response(answer'[p].env)
         /\ (/\ ~InFlight /\ Completed(lastOp')
             /\ answer[lastOp'.p].status = "ok"
             /\ isException(parse_response(answer[lastOp'.p].env))) =>
              lastOp'.out = parse_response(answer[lastOp'.p].env)]_vars

\* An explicit asynchronous flush with auto_await has returned normally
\* although its reply held an application error for one call and a malformed
\* envelope for the other.
C23_Witness ==
    /\ client = "async" /\ auto_await
    /\ lastOp.op = "async_dispatch" /\ lastOp.flush = "ok"
    /\ lastOp.out = Value(Null)
    /\ deferred_results = <<>>
    /\ \E p, q \in DR :
         /\ dr[p].future.kind = "APIException"
         /\ dr[q].future.kind = "UnexpectedAPIResponse"

\* C24: with two tasks, at most one request is posted for a generation, and
\* when the task that awaited one placeholder has got the reply to the
\* request, the task awaiting another placeholder of that generation is not
\* left waiting for a placeholder without an outcome.
C24_ConcurrentAwaits ==
    /\ \A i, j \in 1..Len(requests) :
         requests[i].group = requests[j].group => i = j
    /\ \A t \in Tasks :
         (/\ task[t].pc = "fut" /\ ~InFlight
          /\ Completed(lastOp) /\ lastOp.p # task[t].p
          /\ dr[lastOp.p].batcher_group = dr[task[t].p].batcher_group)
            => dr[task[t].p].future # Pending

\* C25: for a reply that is a JSON object, the unbatched call gives the
\* result exactly when the object's keys are error and result and error is
\* null; an application error with the error string when the keys are those
\* and error is not null; and a protocol violation for every other key set.
C25_EnvelopeDecoding ==
    (lastOp.op = "invoke" /\ lastOp.reply.status = "reply") =>
        LET b == lastOp.reply.body
            exact == DOMAIN b = {"error", "result"}
        IN /\ lastOp.out.kind = "value" <=> (exact /\ b.error = Null)
           /\ (exact /\ b.error = Null) => lastOp.out = Value(b.result)
           /\ (exact /\ b.error # Null) =>
                lastOp.out = Exc("APIException", b.error)
           /\ ~exact => lastOp.out.kind = "UnexpectedAPIResponse"

\* A reply with two keys that are not error and result is a protocol violation.
C25_Witness ==
    /\ lastOp.op = "invoke"
    /\ lastOp.reply.status = "reply"
    /\ DOMAIN lastOp.reply.body = {"error", "extra"}
    /\ lastOp.out.kind = "UnexpectedAPIResponse"

\* C26: the envelope of a request holds the action and the version; it holds
\* the parameters under params when there is at least one, and has no params
\* key when there is none.
C26_RequestEncoding ==
    (lastOp.op = "invoke" /\ lastOp.sent = 1) =>
        LET body == LatestRequest.body
            call == lastOp.call
        IN /\ body.action = call.action
           /\ body.version = version
           /\ IF DOMAIN call.params # {}
              THEN /\ DOMAIN body = {"action", "version", "params"}
                   /\ body.params = call.params
              ELSE DOMAIN body = {"action", "version"}

\* A call without parameters and a call with one have been sent.
C26_Witness ==
    /\ Len(requests) = 2
    /\ lastOp.op = "invoke"
    /\ "params" \notin DOMAIN requests[1].body
    /\ "params" \in DOMAIN requests[2].body

\* C27: a call made while the client has no coordinator posts exactly one
\* request, whatever the reply; it returns the result of a well-formed reply
\* with a null error, and raises otherwise: the application error, the
\* protocol violation, or APIException for a transport or HTTP-status failure.
C27_UnbatchedCall ==
    [][(lastOp'.op = "invoke" /\ ~batcher) =>
          LET r == lastOp'.reply
              ok == /\ r.status = "reply"
                    /\ DOMAIN r.body = {"error", "result"}
                    /\ r.body.error = Null
          IN /\ Len(requests') = Len(requests) + 1
             /\ LatestRequest'.body.action = lastOp'.call.action
             /\ IF ok THEN lastOp'.out = Value(r.body.result)
                ELSE /\ lastOp'.out.kind \in AnkiAPIException
                     /\ r.status # "reply" => lastOp'.out.kind = "APIException"]_vars

\* The second unbatched call failed with a bad HTTP status: two requests in
\* all, and the failure was raised.
C27_Witness ==
    /\ lastOp.op = "invoke" /\ lastOp.sent = 1
    /\ lastOp.reply.status = "HTTPStatusError"
    /\ lastOp.out.kind = "APIException"
    /\ Len(requests) = 2

\* C28: client.invoke queues the call, posts nothing and returns a
\* placeholder while a batch scope is open; it posts one request and returns
\* the result itself while none is.
C28_CallRouting ==
    [][lastOp'.op = "invoke" =>
          IF scopes # <<>>
          THEN /\ requests' = requests
               /\ lastOp'.out.kind = "placeholder"
               /\ Len(actions') = Len(actions) + 1
          ELSE /\ Len(requests') = Len(requests) + 1
               /\ lastOp'.out.kind # "placeholder"
               /\ actions' = actions]_vars

\* C29: whenever a scope is left, the client's batcher is what it was before
\* the scope was entered.
C29_ScopeRestoration ==
    [][Len(scopes') < Len(scopes)
          => batcher' = scopes[Len(scopes)].old_batcher]_vars

\* C30: the request posted on leaving a send_batch scope opened inside
\* another scope carries only calls queued inside the inner scope.
C30_NestedScopesSeparate ==
    [][(/\ lastOp'.op = "exit_send_batch"
        /\ Len(scopes) >= 2
        /\ Len(requests') = Len(requests) + 1) =>
          \A p \in DR :
             Carries(LatestRequest', p) => p > scopes[Len(scopes)].base]_vars

\* ------------------------------------- blocking and asynchronous, side by side
\* async_dispatch run by the only task from its call to its return: nothing
\* else runs while the task is suspended in the network call.
async_dispatch(s, status, list, auto) ==
    IF s.actions = <<>> THEN Return(s, Value(Null))
    ELSE async_dispatch_resume(dispatch_send(s), status, list, auto)

\* `await placeholder` run by the only task, from __await__ to its result or
\* to the suspension it never leaves.
await(s, p, status, list, auto) ==
    IF s.dr[p].batcher_group >= s.dispatch_group
    THEN LET s1 == async_dispatch(s, status, list, auto)
         IN IF isException(s1.out) THEN s1
            ELSE IF s1.stop # "done" THEN Return(s1, Suspended)
            ELSE await_future(s1, p)
    ELSE await_future(s, p)

\* The coordinator as the next operation finds it.
Rest(s) ==
    [s EXCEPT !.out = Value(Null), !.flush = "none", !.stop = "done", !.at = 0]

\* The number of calls a resolution of p sends, in either variant.
WillSendEither(p) ==
    IF \/ dr[p].batcher_group >= dispatch_group
       \/ (/\ blocking.dr[p].value = NoCache
           /\ blocking.dr[p].batcher_group >= blocking.dispatch_group)
    THEN IF Len(actions) >= Len(blocking.actions)
         THEN Len(actions) ELSE Len(blocking.actions)
    ELSE 0

\* The task's step ends idle, or suspended for good on a pending future.
EquivTask(s, p) ==
    task' = [task EXCEPT !["t1"] =
                IF s.out = Suspended THEN OnFuture("await", p) ELSE Idle]

InitEquiv ==
    /\ client = "async"
    /\ auto_await \in BOOLEAN
    /\ actions = <<>>
    /\ futures = <<>>
    /\ deferred_results = <<>>
    /\ dispatch_group = 0
    /\ dr = <<>>
    /\ task = [t \in {"t1"} |-> Idle]
    /\ requests = <<>>
    /\ answer = <<>>
    /\ lastOp = [op |-> "init", p |-> 0, out |-> Value(Null), sent |-> 0,
                 flush |-> "none"]
    /\ batcher = TRUE
    /\ scopes = <<Scope("make_batch", FALSE, 0)>>
    /\ endpoint = "any"
    /\ blocking = Cur

\* The same call is queued on both coordinators.
EquivQueue ==
    /\ Cardinality(DR) < MaxCalls
    /\ task["t1"].pc = "idle"
    /\ LET call == CallOf(Cardinality(DR) + 1)
           s == add_action(Cur, version, call.action, call.params)
       IN /\ Commit(s)
          /\ blocking' = Rest(add_action(blocking, version, call.action,
                                         call.params))
          /\ answer' = answer @@ (Cardinality(DR) + 1 :> NoAnswer)
          /\ lastOp' = Op("add_action", Cardinality(DR) + 1, s)
    /\ UNCHANGED <<endpoint, client, auto_await, task, batcher, scopes>>

\* The same placeholder is resolved on both, `await p` against `p.value`,
\* and the endpoint gives both the same reply.
EquivResolve ==
    /\ task["t1"].pc = "idle"
    /\ \E p \in DR :
         \E status \in Statuses(WillSendEither(p)) :
            \E list \in ResultLists(status, WillSendEither(p)) :
              LET s == await(Cur, p, status, list, auto_await)
              IN /\ Len(s.requests) <= MaxRequests
                 /\ Commit(s)
                 /\ blocking' = Rest(value_get(blocking, p, status, list))
                 /\ SyncReply(s, status, list)
                 /\ EquivTask(s, p)
                 /\ lastOp' = Op("await", p, s)
    /\ UNCHANGED <<endpoint, client, auto_await, batcher, scopes>>

\* Both are flushed explicitly, async_dispatch against sync_dispatch.
EquivDispatch ==
    /\ task["t1"].pc = "idle"
    /\ \E status \in Statuses(Len(actions)) :
       \E list \in ResultLists(status, Len(actions)) :
         LET s == async_dispatch(Cur, status, list, auto_await)
         IN /\ Len(s.requests) <= MaxRequests
            /\ Commit(s)
            /\ blocking' = Rest(sync_dispatch(blocking, status, list))
            /\ SyncReply(s, status, list)
            /\ EquivTask(s, 0)
            /\ lastOp' = Op("async_dispatch", 0, s)
    /\ UNCHANGED <<endpoint, client, auto_await, batcher, scopes>>

NextEquiv ==
    \/ EquivQueue
    \/ EquivResolve
    \/ EquivDispatch

SpecEquiv == InitEquiv /\ [][NextEquiv]_vars

\* ---------------------------------------------------------------------
\* Claims C31..C35.

\* The task that receives the reply to its request in this step.
Receives(t) == task[t].pc = "net" /\ task'[t].pc # "net"

\* C31: when the reply to a task's request arrives with one well-counted
\* envelope per call of the request, no delivery assertion fails, every
\* placeholder whose call the request carried holds the outcome parsed from
\* its envelope, and a call queued while the request was in flight is still
\* in the queue, also when another task queued a call in the meantime.
C31_QueueDuringFlight ==
    [][\A t \in Tasks :
         (/\ Receives(t)
          /\ \A p \in DR :
               Carries(requests[task[t].req], p) => answer'[p].status = "ok")
         => /\ lastOp'.out # AssertionError
            /\ \A p \in DR :
                 Carries(requests[task[t].req], p)
                   => dr'[p].future = parse_response(answer'[p].env)
            /\ \A q \in DR :
                 (\A i \in 1..Len(requests) : ~Carries(requests[i], q))
                   => \E k \in 1..Len(actions') : actions'[k] = EnvelopeOf(q)]_vars

\* C32: in the step in which async_dispatch delivers a reply and runs its
\* drain loop, every placeholder of the retained list already has its outcome
\* and a captured generation behind the counter; the step posts no request,
\* leaves the counter alone and ends with no task suspended in the loop or on
\* a pending future.
C32_DrainNoNetwork ==
    [][(client = "async" /\ auto_await /\ lastOp'.flush = "ok") =>
         /\ \A i \in 1..Len(deferred_results) :
              /\ dr'[deferred_results[i]].future # Pending
              /\ dr'[deferred_results[i]].batcher_group < dispatch_group
         /\ requests' = requests
         /\ dispatch_group' = dispatch_group
         /\ \A t \in Tasks : task'[t].pc \notin {"drain", "net", "fut"}
         /\ lastOp'.out # Suspended]_vars

\* The drain ran over placeholders of two generations: the first flush had
\* failed and left its placeholder in the list, the second delivered to both.
C32_Witness ==
    /\ client = "async" /\ auto_await /\ lastOp.flush = "ok"
    /\ Len(requests) = 2 /\ DR = {1, 2}
    /\ dr[1].batcher_group = 0 /\ dr[2].batcher_group = 1
    /\ dr[1].future # Pending /\ dr[2].future # Pending
    /\ deferred_results = <<>>

\* C33: the generation a placeholder captured never exceeds the generation
\* counter, and a placeholder whose captured generation equals the counter
\* has its call in the queue of calls, at the place of its future in the
\* queue of futures, so the flush its first read starts has calls to send.
C33_GenerationBound ==
    \A p \in DR :
      /\ dr[p].batcher_group <= dispatch_group
      /\ dr[p].batcher_group = dispatch_group =>
           /\ actions # <<>>
           /\ \E k \in 1..Len(actions) :
                /\ actions[k] = EnvelopeOf(p)
                /\ k <= Len(futures) /\ futures[k] = p

\* One placeholder is behind the counter after a flush, the other was queued
\* after it and is level with the counter.
C33_Witness ==
    /\ DR = {1, 2}
    /\ Len(requests) = 1
    /\ dr[1].batcher_group < dispatch_group
    /\ dr[2].batcher_group = dispatch_group
    /\ Len(actions) = 1 /\ actions[1] = EnvelopeOf(2)

\* C34: a blocking coordinator and an asynchronous one used by a single task,
\* given the same queue, resolve and flush operations and the same replies,
\* have sent the same requests, stand at the same generation and hold the
\* same outcome for every placeholder, with auto-drain on or off.
C34_SyncAsyncEquivalence ==
    /\ blocking.requests = requests
    /\ blocking.dispatch_group = dispatch_group
    /\ DOMAIN blocking.dr = DR
    /\ \A p \in DR :
         /\ blocking.dr[p].future = dr[p].future
         /\ blocking.dr[p].batcher_group = dr[p].batcher_group

\* Two flushes were made without auto-drain; the first call failed, the
\* second got a value, which the blocking placeholder has cached.
C34_Witness ==
    /\ ~auto_await
    /\ Len(requests) = 2 /\ DR = {1, 2}
    /\ dr[1].future.kind = "APIException"
    /\ dr[2].future.kind = "value"
    /\ blocking.dr[2].value # NoCache
    /\ lastOp.op = "await"

\* C35: after a flush that delivered its reply, the retained list of
\* placeholders holds none that has its outcome, in the blocking client and
\* in the asynchronous one with auto-drain on or off.
C35_RetainedListBounded ==
    lastOp.flush = "ok" =>
        \A i \in 1..Len(deferred_results) :
            dr[deferred_results[i]].future = Pending

====
